---- MODULE Spec2Model ----
EXTENDS Integers, Sequences, FiniteSets, TLC

(***************************************************************************)
(* The fractal and risk analysis engine of the quant platform, its tool    *)
(* wrappers and the GARCH endpoint.  One behaviour is a sequence of calls: *)
(* from idle a function is called on some input and runs to its result,    *)
(* which stays in res until the caller takes it (Done).  The calls that    *)
(* draw pseudo-random numbers are also run from parallel threads, which    *)
(* share the process-wide numpy generator rng.                             *)
(***************************************************************************)
VARIABLES
    fn,     \* the function called, or "idle"
    args,   \* its arguments, and the behaviour of what lies outside the repository
    res,    \* what the call returned or raised
    rng,    \* the state of numpy's global generator: its seed and the draws made since
    thr     \* per thread: the call it is making and how far it got

vars == <<fn, args, res, rng, thr>>

(***************************************************************************)
(* Exact arithmetic on naturals too large for machine integers: a number   *)
(* is its little-endian sequence of base-BigBase digits.  Used to decide   *)
(* floor(10 ** x) for the points of numpy.logspace without rounding.       *)
(***************************************************************************)
BigBase == 100 * 100

RECURSIVE BigNorm(_)
BigNorm(c) == IF c = 0 THEN <<>> ELSE <<c % BigBase>> \o BigNorm(c \div BigBase)

RECURSIVE BigMulCarry(_, _, _)
BigMulCarry(x, m, c) ==
    IF x = <<>> THEN BigNorm(c)
    ELSE LET t == Head(x) * m + c
         IN  <<t % BigBase>> \o BigMulCarry(Tail(x), m, t \div BigBase)

BigMul(x, m) == IF m = 0 THEN <<>> ELSE BigMulCarry(x, m, 0)

RECURSIVE BigPowMul(_, _, _)
BigPowMul(x, m, e) == IF e = 0 THEN x ELSE BigPowMul(BigMul(x, m), m, e - 1)

RECURSIVE BigLess(_, _)
BigLess(x, y) ==
    IF Len(x) # Len(y) THEN Len(x) < Len(y)
    ELSE IF x = <<>> THEN FALSE
    ELSE IF x[Len(x)] # y[Len(y)] THEN x[Len(x)] < y[Len(y)]
    ELSE BigLess(SubSeq(x, 1, Len(x) - 1), SubSeq(y, 1, Len(y) - 1))


(***************************************************************************)
(* numpy.logspace(log10(a), log10(b), num).astype(int), then numpy.unique. *)
(* Point i is a^((num-1-i)/(num-1)) * b^(i/(num-1)); astype(int) truncates *)
(* it, so it becomes the k with k^(num-1) <= a^(num-1-i) * b^i <           *)
(* (k+1)^(num-1).  The two end points are 10 ** log10(a) and               *)
(* 10 ** log10(b) in floating point: exact for a power of ten, otherwise   *)
(* the result may land one ulp under the integer and truncate to one less; *)
(* ulp.lo and ulp.hi say whether that happens.                             *)
(***************************************************************************)
IsPowerOfTen(m) == m \in {1, 10, 100, 1000}

FloatEnd(m, under) == IF under /\ ~IsPowerOfTen(m) THEN m - 1 ELSE m

BigPow(k, e) == BigPowMul(<<1>>, k, e)

LogSpaceInterior(a, b, num) ==
    LET lo  == IF a <= b THEN a ELSE b
        hi  == IF a <= b THEN b ELSE a
        e   == num - 1
        kp  == [k \in lo..(hi + 1) |-> BigPow(k, e)]
        pt  == [i \in 1..(e - 1) |-> BigPowMul(BigPow(a, e - i), b, i)]
    IN  { k \in lo..hi :
            \E i \in 1..(e - 1) : ~BigLess(pt[i], kp[k]) /\ BigLess(pt[i], kp[k + 1]) }

RECURSIVE SortedSeq(_)
SortedSeq(S) ==
    IF S = {} THEN <<>>
    ELSE LET m == CHOOSE x \in S : \A y \in S : x <= y
         IN  <<m>> \o SortedSeq(S \ {m})


(***************************************************************************)
(* Bounds of the checked inputs.                                           *)
(***************************************************************************)
Slack == 6          \* series lengths range over minimum - Slack .. minimum + Slack
MaxNaN == 2         \* at most this many leading missing values in a series
MaxScale == 16      \* largest window / box size of the precomputed scale tables
MaxGap == 120       \* one long series starts with this many missing values

(***************************************************************************)
(* A pandas Series: its values, and the positions that hold NaN.           *)
(***************************************************************************)
Shapes == {"const", "alt", "spike"}

ShapeVal(shape, i, n) ==
    CASE shape = "const" -> 3
      [] shape = "alt"   -> i % 2
      [] shape = "spike" -> IF i = n THEN 1 ELSE 0
      [] shape = "burst" -> IF 3 * i > 2 * n THEN 2 * (i % 2)
                            ELSE IF 3 * i > n THEN i % 2 ELSE 0

MkSeries(n, shape, k) == [vals |-> [i \in 1..n |-> ShapeVal(shape, i, n)], nan |-> 1..k]

SeriesOfLen(lens) == { MkSeries(n, sh, k) : n \in lens, sh \in Shapes, k \in 0..MaxNaN }

\* the positions that do not hold NaN, ascending
KeptIndex(s) == SelectSeq([i \in 1..Len(s.vals) |-> i], LAMBDA i : i \notin s.nan)

\* Series.dropna(): the values that are not NaN, in their original order
dropna(s) == [j \in 1..Len(KeptIndex(s)) |-> s.vals[KeptIndex(s)[j]]]


(***************************************************************************)
(* Results.  A call either returns a value or raises; steps lists, in      *)
(* order, the computation stages the call went through before it ended.    *)
(* Floats are fixed-point integers; a float that may be NaN is a record.   *)
(***************************************************************************)
None == <<>>
Some(x) == <<x>>

Float(x) == [nan |-> FALSE, v |-> x]
NaNFloat == [nan |-> TRUE, v |-> 0]

Raised(kind, steps, aux) ==
    [outcome |-> "raised", error |-> kind, steps |-> steps, value |-> None, aux |-> aux]

Returned(value, steps, aux) ==
    [outcome |-> "returned", error |-> "", steps |-> steps, value |-> value, aux |-> aux]

Ulps == [lo : BOOLEAN, hi : BOOLEAN]

(***************************************************************************)
(* analysis/fractal.py: calculate_hurst                                    *)
(***************************************************************************)
HurstMinLen == 20
HurstNumScales == 20
HurstMinPairs == 3
DefaultMinWindow == 10
HurstClipLo == 1        \* 0.01, in hundredths
HurstClipHi == 99       \* 0.99, in hundredths

\* sub_series.std() > 0 for sub_series = series.iloc[start : start + window]:
\* some element of the window differs from its first
StdPositive(clean, start, window) ==
    \E i \in (start + 2)..(start + window) : clean[i] # clean[start + 1]

\* the inner loop: the starts whose window has S > 0 each add one R/S value
RsWindow(clean, window) ==
    { start \in 0..(Len(clean) - window) : StdPositive(clean, start, window) }

HurstTable ==
    [a \in {5, DefaultMinWindow}, b \in 1..(2 * MaxScale) |->
        LogSpaceInterior(a, b, HurstNumScales)]

HurstWindows(min_window, max_window, ulp) ==
    SortedSeq(
        IF min_window = max_window THEN {FloatEnd(min_window, ulp.lo)}
        ELSE {FloatEnd(min_window, ulp.lo), FloatEnd(max_window, ulp.hi)} \cup
             (IF <<min_window, max_window>> \in DOMAIN HurstTable
              THEN HurstTable[min_window, max_window]
              ELSE LogSpaceInterior(min_window, max_window, HurstNumScales)))

\* a loop that keeps the size of every admissible window, with or without an R/S value
RECURSIVE HurstLoopUnpaired(_, _, _, _)
HurstLoopUnpaired(clean, windows, min_window, acc) ==
    IF windows = <<>> THEN acc
    ELSE LET window == Head(windows)
             rs_window == RsWindow(clean, window)
         IN  IF window < min_window \/ window > Len(clean)
             THEN HurstLoopUnpaired(clean, Tail(windows), min_window, acc)
             ELSE HurstLoopUnpaired(clean, Tail(windows), min_window,
                     [rs_values |-> IF rs_window # {}
                                    THEN Append(acc.rs_values,
                                            [window |-> window, n |-> Cardinality(rs_window)])
                                    ELSE acc.rs_values,
                      window_sizes |-> Append(acc.window_sizes, window)])

\* the loop over windows: rs_values and window_sizes grow together
RECURSIVE HurstLoop(_, _, _, _)
HurstLoop(clean, windows, min_window, acc) ==
    IF windows = <<>> THEN acc
    ELSE LET window == Head(windows)
             rs_window == RsWindow(clean, window)
         IN  IF window < min_window \/ window > Len(clean)
             THEN HurstLoop(clean, Tail(windows), min_window, acc)
             ELSE IF rs_window # {}
             THEN HurstLoop(clean, Tail(windows), min_window,
                     [rs_values |-> Append(acc.rs_values,
                                       [window |-> window, n |-> Cardinality(rs_window)]),
                      window_sizes |-> Append(acc.window_sizes, window)])
             ELSE HurstLoop(clean, Tail(windows), min_window, acc)

\* everything up to the regression
HurstScan(series, min_window, max_window, ulp) ==
    LET clean == dropna(series)
        maxw  == IF max_window = None THEN Len(clean) \div 2 ELSE max_window[1]
        windows == HurstWindows(min_window, maxw, ulp)
        lists == HurstLoop(clean, windows, min_window,
                           [rs_values |-> <<>>, window_sizes |-> <<>>])
    IN  [n |-> Len(clean), max_window |-> maxw, windows |-> windows,
         rs_values |-> lists.rs_values, window_sizes |-> lists.window_sizes]

\* a clip that bounds the value from below only
ClipBelowOnly(x, lo, hi) == IF x < lo THEN lo ELSE x

\* numpy.clip(x, lo, hi)
Clip(x, lo, hi) == IF x < lo THEN lo ELSE IF x > hi THEN hi ELSE x

\* a guard that lets a regression on two pairs through
HurstFinishLax(scan, slope) ==
    IF Len(scan.rs_values) < HurstMinPairs - 1
    THEN Raised("insufficient_data", <<"dropna", "scales", "rs">>, scan)
    ELSE Returned(Float(Clip(slope, HurstClipLo, HurstClipHi)),
                  <<"dropna", "scales", "rs", "regress">>, scan)

\* lines 88-96: the guard on the number of pairs, the regression, the clip
HurstFinish(scan, slope) ==
    IF Len(scan.rs_values) < HurstMinPairs
    THEN Raised("insufficient_data", <<"dropna", "scales", "rs">>, scan)
    ELSE Returned(Float(Clip(slope, HurstClipLo, HurstClipHi)),
                  <<"dropna", "scales", "rs", "regress">>, scan)

\* a variant that cleans the series first and tests the cleaned length
calculate_hurst_clean_first(series, min_window, max_window, ulp, slope) ==
    IF Len(dropna(series)) < HurstMinLen
    THEN Raised("insufficient_data", <<"dropna">>, None)
    ELSE HurstFinish(HurstScan(series, min_window, max_window, ulp), slope)

calculate_hurst(series, min_window, max_window, ulp, slope) ==
    IF Len(series.vals) < HurstMinLen
    THEN Raised("insufficient_data", <<>>, None)
    ELSE HurstFinish(HurstScan(series, min_window, max_window, ulp), slope)


(***************************************************************************)
(* analysis/fractal.py: calculate_dfa                                      *)
(***************************************************************************)
DfaMinLen == 50
DfaNumScales == 25
DfaMinBoxes == 5
DefaultMinBox == 10
DefaultOrder == 1

RECURSIVE SumSeq(_)
SumSeq(s) == IF s = <<>> THEN 0 ELSE Head(s) + SumSeq(Tail(s))

\* numpy.cumsum(data - numpy.mean(data)), times N to stay in the integers
Profile(data) ==
    LET N == Len(data)
        total == SumSeq(data)
        cum[j \in 0..N] == IF j = 0 THEN 0 ELSE cum[j - 1] + data[j]
    IN  [j \in 1..N |-> N * cum[j] - j * total]

Diff(s) == [i \in 1..(Len(s) - 1) |-> s[i + 1] - s[i]]

RECURSIVE DiffN(_, _)
DiffN(s, d) == IF d = 0 \/ s = <<>> THEN s ELSE DiffN(Diff(s), d - 1)

\* the residual of a least-squares polynomial of degree order on equally spaced
\* points is zero exactly when the (order+1)-th finite differences all vanish
FluctuationZero(box_profile, order) ==
    LET d == DiffN(box_profile, order + 1) IN \A i \in DOMAIN d : d[i] = 0

\* numpy.arange(0, N - box_size + 1, box_size)
BoxStarts(N, box_size) == { k * box_size : k \in 0..((N \div box_size) - 1) }

DfaTable ==
    [a \in {5, DefaultMinBox}, b \in (1..MaxScale) \cup {4 * MaxScale} |->
        LogSpaceInterior(a, b, DfaNumScales)]

DfaBoxSizes(min_box_size, max_box_size, ulp) ==
    SortedSeq(
        IF min_box_size = max_box_size THEN {FloatEnd(min_box_size, ulp.lo)}
        ELSE {FloatEnd(min_box_size, ulp.lo), FloatEnd(max_box_size, ulp.hi)} \cup
             (IF <<min_box_size, max_box_size>> \in DOMAIN DfaTable
              THEN DfaTable[min_box_size, max_box_size]
              ELSE LogSpaceInterior(min_box_size, max_box_size, DfaNumScales)))

\* a loop that also leaves out a box size whose boxes all detrend to zero
RECURSIVE DfaLoopDropsFlat(_, _, _, _)
DfaLoopDropsFlat(profile, box_sizes, order, acc) ==
    IF box_sizes = <<>> THEN acc
    ELSE LET box_size == Head(box_sizes)
             starts == BoxStarts(Len(profile), box_size)
             zero == \A st \in starts :
                        FluctuationZero(SubSeq(profile, st + 1, st + box_size), order)
         IN  IF starts # {} /\ ~zero
             THEN DfaLoopDropsFlat(profile, Tail(box_sizes), order,
                     Append(acc, [box_size |-> box_size, boxes |-> Cardinality(starts),
                                  zero |-> zero]))
             ELSE DfaLoopDropsFlat(profile, Tail(box_sizes), order, acc)

\* the loop over box sizes: one mean fluctuation per box size that has a box
RECURSIVE DfaLoop(_, _, _, _)
DfaLoop(profile, box_sizes, order, acc) ==
    IF box_sizes = <<>> THEN acc
    ELSE LET box_size == Head(box_sizes)
             starts == BoxStarts(Len(profile), box_size)
             zero == \A st \in starts :
                        FluctuationZero(SubSeq(profile, st + 1, st + box_size), order)
         IN  IF starts # {}
             THEN DfaLoop(profile, Tail(box_sizes), order,
                     Append(acc, [box_size |-> box_size, boxes |-> Cardinality(starts),
                                  zero |-> zero]))
             ELSE DfaLoop(profile, Tail(box_sizes), order, acc)

DfaScan(series, min_box_size, max_box_size, order, ulp) ==
    LET data == dropna(series)
        N == Len(data)
        maxb == IF max_box_size = None THEN N \div 4 ELSE max_box_size[1]
        box_sizes == DfaBoxSizes(min_box_size, maxb, ulp)
    IN  [n |-> N, max_box_size |-> maxb, box_sizes |-> box_sizes,
         fluctuations |-> DfaLoop(Profile(data), box_sizes, order, <<>>)]

DfaDegenerate(scan) == \E i \in DOMAIN scan.fluctuations : scan.fluctuations[i].zero

\* lines 152-159: the guard, then the regression on box_sizes[:len(fluctuations)];
\* log10 of a zero fluctuation is -inf and the fitted slope is then NaN
DfaFinish(scan, slope) ==
    IF Len(scan.fluctuations) < DfaMinBoxes
    THEN Raised("insufficient_data", <<"dropna", "profile", "scales", "fluctuations">>, scan)
    ELSE LET log_sizes == SubSeq(scan.box_sizes, 1, Len(scan.fluctuations))
         IN  Returned(IF DfaDegenerate(scan) THEN NaNFloat ELSE Float(slope),
                      <<"dropna", "profile", "scales", "fluctuations", "regress">>,
                      [n |-> scan.n, max_box_size |-> scan.max_box_size,
                       box_sizes |-> scan.box_sizes, fluctuations |-> scan.fluctuations,
                       log_sizes |-> log_sizes])

calculate_dfa(series, min_box_size, max_box_size, order, ulp, slope) ==
    IF Len(series.vals) < DfaMinLen
    THEN Raised("insufficient_data", <<>>, None)
    ELSE DfaFinish(DfaScan(series, min_box_size, max_box_size, order, ulp), slope)


(***************************************************************************)
(* analysis/fractal.py: calculate_multifractal_spectrum                    *)
(* q is counted in units of q_step.  The measure is |diff| + 1e-10, so     *)
(* every box sum is positive and every partition sum Z_q is positive.      *)
(***************************************************************************)
MfMinLen == 200
MfNumScales == 15
MfFirstBox == 10
MfBoxDivisor == 8
MfMinBoxes == 3
MfMinTau == 3

\* numpy.arange(q_range[0], q_range[1] + q_step, q_step), in units of q_step
QValues(q_lo, q_hi) == [i \in 1..(q_hi - q_lo + 1) |-> q_lo + i - 1]

\* lines 196-211 for one q: the box sizes that contribute a (log size, log Z) pair
MfValidSizes(N, box_sizes) ==
    SelectSeq(box_sizes, LAMBDA box_size : (N \div box_size) >= MfMinBoxes /\ box_size > 0)

MfTable ==
    [b \in 1..(2 * MaxScale) |-> LogSpaceInterior(MfFirstBox, b, MfNumScales)]

MfBoxSizes(N, ulp) ==
    LET b == N \div MfBoxDivisor
    IN  SortedSeq(
            IF b = MfFirstBox THEN {FloatEnd(b, ulp.lo)}
            ELSE {FloatEnd(MfFirstBox, ulp.lo), FloatEnd(b, ulp.hi)} \cup
                 (IF b \in DOMAIN MfTable THEN MfTable[b]
                  ELSE LogSpaceInterior(MfFirstBox, b, MfNumScales)))

\* a guard that lets a spectrum of two points through
MfFinishLax(q_valid, aux) ==
    IF Len(q_valid) < MfMinTau - 1
    THEN Raised("insufficient_data", <<"dropna", "measure", "scales", "tau">>, aux)
    ELSE Returned([alpha |-> q_valid, f_alpha |-> q_valid,
                   q_values |-> q_valid, tau_q |-> q_valid],
                  <<"dropna", "measure", "scales", "tau", "legendre">>, aux)

\* lines 219-227: the guard on the surviving q values, then alpha and f(alpha),
\* each array indexed like q_valid
MfFinish(q_valid, aux) ==
    IF Len(q_valid) < MfMinTau
    THEN Raised("insufficient_data", <<"dropna", "measure", "scales", "tau">>, aux)
    ELSE Returned([alpha |-> q_valid, f_alpha |-> q_valid,
                   q_values |-> q_valid, tau_q |-> q_valid],
                  <<"dropna", "measure", "scales", "tau", "legendre">>, aux)

calculate_multifractal_spectrum(series, q_lo, q_hi, ulp) ==
    IF Len(series.vals) < MfMinLen
    THEN Raised("insufficient_data", <<>>, None)
    ELSE LET N == Len(dropna(series)) - 1
             q_values == QValues(q_lo, q_hi)
             box_sizes == MfBoxSizes(N, ulp)
             valid == MfValidSizes(N, box_sizes)
             \* tau_q[i] is NaN unless q_values[i] was fitted on >= 3 box sizes
             tau_ok == [i \in DOMAIN q_values |-> Len(valid) >= MfMinBoxes]
             q_valid == SelectSeq(q_values,
                            LAMBDA q : \E i \in DOMAIN q_values : q_values[i] = q /\ tau_ok[i])
             aux == [n |-> N, box_sizes |-> box_sizes, valid_sizes |-> valid]
         IN  MfFinish(q_valid, aux)

(***************************************************************************)
(* analysis/fractal.py: generate_fbm_path.  hurst is in tenths.  The       *)
(* sample is the sequence of fBm increments drawn by the generator; the    *)
(* path is initial_price * exp(cumsum(returns)), kept as the exponents.    *)
(***************************************************************************)
HurstOne == 10      \* 1.0, in tenths

CumSum(s) ==
    LET c[j \in 0..Len(s)] == IF j = 0 THEN 0 ELSE c[j - 1] + s[j]
    IN  [j \in 1..Len(s) |-> c[j]]

\* a path that scales the cumulated returns without the exponential
PricesLinear(initial_price, cum) ==
    [i \in DOMAIN cum |-> [scale |-> initial_price * cum[i], exponent |-> 0]]

\* initial_price * np.exp(np.cumsum(returns)): each price is scale * exp(exponent)
Prices(initial_price, cum) ==
    [i \in DOMAIN cum |-> [scale |-> initial_price, exponent |-> cum[i]]]

generate_fbm_path(initial_price, hurst, days, volatility, drift, increments) ==
    IF ~(0 < hurst /\ hurst < HurstOne)
    THEN Raised("invalid_parameter", <<>>, None)
    ELSE LET \* fbm() returns days + 1 values starting at 0; diff(..., prepend=0) keeps days + 1
             fbm_diff == <<0>> \o increments
             \* (drift - vol^2 / 2) * dt + vol * sqrt(dt) * increment, in units that
             \* keep it an integer (twice the value, dt = 1)
             returns == [i \in 1..(days + 1) |->
                            (2 * drift - volatility * volatility) + 2 * volatility * fbm_diff[i]]
         IN  Returned(Prices(initial_price, CumSum(returns)),
                      <<"draw", "returns", "prices">>, [draws |-> Len(increments)])


(***************************************************************************)
(* analysis/risk.py: calculate_cvar.  The confidence level is in           *)
(* hundredths; a float result is the fraction num / den.                   *)
(***************************************************************************)
Hundred == 10 * 10

Frac(num, den) == [nan |-> FALSE, num |-> num, den |-> den]
NaNFrac == [nan |-> TRUE, num |-> 0, den |-> 1]

RECURSIVE Insert(_, _)
Insert(x, s) ==
    IF s = <<>> THEN <<x>>
    ELSE IF x <= Head(s) THEN <<x>> \o s
    ELSE <<Head(s)>> \o Insert(x, Tail(s))

RECURSIVE Sort(_)
Sort(s) == IF s = <<>> THEN <<>> ELSE Insert(Head(s), Sort(Tail(s)))

\* Series.quantile(p / 100) with linear interpolation, times 100:
\* position (n - 1) * p / 100 between the two neighbouring order statistics
Quantile100(clean, p) ==
    LET sorted == Sort(clean)
        pos == (Len(clean) - 1) * p
        lo == pos \div Hundred
        rem == pos % Hundred
    IN  IF rem = 0 THEN Hundred * sorted[lo + 1]
        ELSE Hundred * sorted[lo + 1] + rem * (sorted[lo + 2] - sorted[lo + 1])

\* the opposite tail: the returns at or above the threshold
TailLossesAbove(clean, threshold100) ==
    SelectSeq(clean, LAMBDA x : Hundred * x >= threshold100)

\* a tail that leaves out the returns equal to the threshold
TailLossesStrict(clean, threshold100) ==
    SelectSeq(clean, LAMBDA x : Hundred * x < threshold100)

\* clean_returns[clean_returns <= var_threshold]
TailLosses(clean, threshold100) == SelectSeq(clean, LAMBDA x : Hundred * x <= threshold100)

\* a variant that rejects a series with no observation left
EmptyCvarRaises(steps) == Raised("insufficient_data", steps, None)

\* lines 20-21: if len(clean_returns) == 0: return np.nan
EmptyCvar(steps) == Returned(NaNFrac, steps, None)

calculate_cvar(returns, confidence_level, is_series) ==
    IF ~is_series THEN Raised("type_error", <<>>, None)
    ELSE IF ~(0 < confidence_level /\ confidence_level < Hundred)
    THEN Raised("invalid_parameter", <<>>, None)
    ELSE LET clean_returns == dropna(returns)
         IN  IF Len(clean_returns) = 0
             THEN EmptyCvar(<<"dropna">>)
             ELSE LET var_threshold == Quantile100(clean_returns, Hundred - confidence_level)
                      tail_losses == TailLosses(clean_returns, var_threshold)
                      aux == [var_threshold |-> Frac(var_threshold, Hundred),
                              tail |-> Len(tail_losses)]
                  IN  IF Len(tail_losses) = 0
                      THEN Returned(Frac(0 - var_threshold, Hundred),
                                    <<"dropna", "quantile", "tail">>, aux)
                      ELSE Returned(Frac(0 - SumSeq(tail_losses), Len(tail_losses)),
                                    <<"dropna", "quantile", "tail", "mean">>, aux)


(***************************************************************************)
(* analysis/risk.py: calculate_multi_level_var.  Series.quantile skips     *)
(* missing values; value and expected_shortfall are the quantile and the   *)
(* CVaR times 100 (the rounding to 3 decimals is left out).                *)
(***************************************************************************)
\* portfolio_returns.quantile(1 - confidence), as a fraction
SeriesQuantile(returns, confidence) ==
    IF Len(dropna(returns)) = 0 THEN NaNFrac
    ELSE Frac(Quantile100(dropna(returns), Hundred - confidence), Hundred)

\* lines 116-125: one entry per confidence level
VarEntry(portfolio_returns, confidence) ==
    [value |-> SeriesQuantile(portfolio_returns, confidence),
     expected_shortfall |-> calculate_cvar(portfolio_returns, confidence, TRUE).value,
     confidence_level |-> confidence]

\* lines 127-129: Series.std() skips missing values and is NaN for fewer than two
\* observations; the ratio is taken only when portfolio_std > 0, else 0
SharpeRatio(portfolio_returns) ==
    LET clean == dropna(portfolio_returns)
    IN  IF Len(clean) >= 2 /\ \E i, j \in DOMAIN clean : clean[i] # clean[j]
        THEN [branch |-> "ratio", mean |-> Frac(SumSeq(clean), Len(clean))]
        ELSE [branch |-> "zero", mean |-> Frac(0, 1)]

calculate_multi_level_var(portfolio_returns, confidence_levels, is_series) ==
    IF ~is_series \/ Len(portfolio_returns.vals) = 0
    THEN Returned([success |-> FALSE, error |-> "invalid_input"], <<>>, None)
    ELSE IF \E i \in DOMAIN confidence_levels :
                calculate_cvar(portfolio_returns, confidence_levels[i], TRUE).outcome = "raised"
    THEN \* the ValueError of calculate_cvar (or of quantile) is caught at line 140
         Returned([success |-> FALSE, error |-> "invalid_parameter"], <<"quantile">>, None)
    ELSE Returned([success |-> TRUE,
                   var_analysis |-> [i \in DOMAIN confidence_levels |->
                                       VarEntry(portfolio_returns, confidence_levels[i])],
                   sharpe_ratio |-> SharpeRatio(portfolio_returns)],
                  <<"quantile", "cvar", "statistics">>, None)

(***************************************************************************)
(* analysis/risk.py: fit_garch_forecast.  The arch library is outside the  *)
(* repository: lib says whether each fit converges and which variances the *)
(* fitted model forecasts.  index is the kind of index the series has.     *)
(***************************************************************************)
GarchMinLen == 50

RECURSIVE IsqrtIter(_, _, _)
IsqrtIter(x, lo, hi) ==
    IF lo >= hi THEN lo
    ELSE LET mid == (lo + hi + 1) \div 2
         IN  IF mid * mid <= x THEN IsqrtIter(x, mid, hi) ELSE IsqrtIter(x, lo, mid - 1)

\* floor of the square root
Isqrt(x) == IsqrtIter(x, 0, IF x < 46340 THEN x ELSE 46340)

fit_garch_forecast(returns, forecast_horizon, index, lib) ==
    IF Len(returns.vals) < GarchMinLen
    THEN Raised("insufficient_data", <<>>, None)
    ELSE IF ~lib.t_ok /\ ~lib.normal_ok
    THEN \* the fallback fit is outside any try: its exception leaves the function
         Raised("fit_error", <<"dropna", "fit_t", "fit_normal">>, [fits |-> 2])
    ELSE LET fits == IF lib.t_ok THEN 1 ELSE 2
             fitsteps == IF lib.t_ok THEN <<"dropna", "fit_t">>
                         ELSE <<"dropna", "fit_t", "fit_normal">>
             future_vol_values == [i \in 1..forecast_horizon |-> Isqrt(lib.variance[i])]
         IN  IF index # "datetime"
             THEN \* returns.index[-1] + pd.Timedelta(days=1) on an integer index
                  Raised("type_error", fitsteps \o <<"forecast", "dates">>, [fits |-> fits])
             ELSE \* return forecast_series: one Series, of forecast_horizon entries
                  Returned([kind |-> "series", vals |-> future_vol_values],
                           fitsteps \o <<"forecast", "dates">>, [fits |-> fits])

(***************************************************************************)
(* analysis/regime.py: detect_hmm_regimes.  hmm_available is whether the   *)
(* module-level import of hmmlearn succeeded (hmm is not None); lib is the *)
(* library's behaviour: whether fit succeeds and the states it decodes.    *)
(***************************************************************************)
HmmMinLen == 50

HmmLabel(pattern, i, n_regimes) ==
    CASE pattern = "first" -> 0
      [] pattern = "cycle" -> i % n_regimes
      [] pattern = "last"  -> n_regimes - 1

detect_hmm_regimes(returns, n_regimes, hmm_available, lib) ==
    IF ~hmm_available THEN Raised("import_error", <<>>, None)
    ELSE IF Len(returns.vals) < HmmMinLen THEN Raised("insufficient_data", <<>>, None)
    ELSE LET returns_clean == dropna(returns)
             index == KeptIndex(returns)
         IN  IF n_regimes < 1 \/ ~lib.fit_ok
             THEN Raised("fit_error", <<"dropna", "reshape", "fit">>, None)
             ELSE Returned([regimes |-> [index |-> index,
                                         vals |-> [i \in 1..Len(returns_clean) |->
                                                     HmmLabel(lib.pattern, i, n_regimes)]],
                            model |-> Some([n_components |-> n_regimes])],
                           <<"dropna", "reshape", "fit", "predict">>, None)


(***************************************************************************)
(* ai/tools/quant_tools.py.  Every tool calls                              *)
(* safe_import_analysis_functions() first; imports says, per analysis      *)
(* module, whether its import succeeded at that call.  A failed import     *)
(* installs the lambda stand-in of lines 28-29, 39-40, 49.                 *)
(***************************************************************************)
\* what a tool returns: the dictionary, and in steps the path that produced it
Dict(d, path) == Returned(d, path, None)

IsNaNAt(data, a, b) == \E i \in a..b : i \in data.nan

SumSq(s) == SumSeq([i \in DOMAIN s |-> s[i] * s[i]])

\* n * sum(x^2) - sum(x)^2: the sample variance times n * (n - 1)
VarNum(s) == Len(s) * SumSq(s) - SumSeq(s) * SumSeq(s)

\* Series.rolling(w).std() in hundredths; None where the window is short or holds NaN
RollingStd(data, w) ==
    [i \in 1..Len(data.vals) |->
        IF i < w \/ IsNaNAt(data, i - w + 1, i) THEN None
        ELSE Some(Isqrt((VarNum(SubSeq(data.vals, i - w + 1, i)) * Hundred * Hundred)
                        \div (w * (w - 1))))]

RECURSIVE Somes(_)
Somes(s) ==
    IF s = <<>> THEN <<>>
    ELSE (IF Head(s) = None THEN <<>> ELSE <<Head(s)[1]>>) \o Somes(Tail(s))

(***************************************************************************)
(* calculate_hurst_exponent (tool), lines 55-98                            *)
(***************************************************************************)
MeanRevertingBelow == 45    \* 0.45, in hundredths
PersistentAbove == 55       \* 0.55, in hundredths
RollingMinLen == 50
StandInHurst == 50          \* lambda data: 0.5

Interpretation(h) ==
    IF ~h.nan /\ h.v < MeanRevertingBelow THEN "mean_reverting"
    ELSE IF ~h.nan /\ h.v > PersistentAbove THEN "persistent"
    ELSE "random_walk"

\* the function the tool got from safe_import_analysis_functions, applied to x
ToolHurstFn(import_ok, x, ulp, slope) ==
    IF import_ok THEN calculate_hurst(x, DefaultMinWindow, None, ulp, slope)
    ELSE Returned(Float(StandInHurst), <<"stand_in">>, None)

\* series.rolling(window=ws).apply(lambda x: f(x) if len(x) >= 50 else nan): the
\* windows that are full and free of NaN, as Series
RollingWindows(data, ws) ==
    { i \in ws..Len(data.vals) : ~IsNaNAt(data, i - ws + 1, i) }

WindowAt(data, ws, i) == [vals |-> SubSeq(data.vals, i - ws + 1, i), nan |-> {}]

HurstToolValue(data, window_size, import_ok, ulp, slope) ==
    IF window_size = None THEN ToolHurstFn(import_ok, data, ulp, slope)
    ELSE LET ws == window_size[1]
             wins == RollingWindows(data, ws)
             n == Len(data.vals)
         IN  IF ws < RollingMinLen \/ wins = {}
             THEN Returned(NaNFloat, <<"rolling">>, None)
             ELSE IF \E i \in wins :
                        ToolHurstFn(import_ok, WindowAt(data, ws, i), ulp, slope).outcome = "raised"
             THEN Raised("insufficient_data", <<"rolling">>, None)
             ELSE IF n \in wins
             THEN ToolHurstFn(import_ok, WindowAt(data, ws, n), ulp, slope)
             ELSE Returned(NaNFloat, <<"rolling">>, None)

calculate_hurst_exponent(data, window_size, import_ok, ulp, slope) ==
    LET r == HurstToolValue(data, window_size, import_ok, ulp, slope)
    IN  IF r.outcome = "raised" THEN Dict([error |-> r.error], r.steps)
        ELSE Dict([hurst_exponent |-> r.value,
                   interpretation |-> Interpretation(r.value),
                   data_points |-> Len(data.vals),
                   calculation_method |-> "R/S analysis"], r.steps)


(***************************************************************************)
(* calculate_cvar (tool), lines 101-132.  numpy.percentile, numpy.mean and *)
(* numpy.std work on the raw list: any NaN in it makes them NaN.           *)
(***************************************************************************)
\* numpy.percentile(data, p) as a fraction over 100; p outside [0, 100] raises
Percentile(data, p) ==
    IF data.nan # {} THEN NaNFrac ELSE Frac(Quantile100(data.vals, p), Hundred)

\* abs(cvar) > 2 * volatility, squared on both sides: volatility^2 = VarNum / n^2
RiskHigh(cvar, data) ==
    /\ ~cvar.nan
    /\ data.nan = {}
    /\ cvar.num * cvar.num * Len(data.vals) * Len(data.vals)
         > 4 * cvar.den * cvar.den * VarNum(data.vals)

CvarToolFn(import_ok, data, confidence_level) ==
    IF import_ok THEN calculate_cvar(data, confidence_level, TRUE)
    ELSE IF confidence_level < 0 \/ confidence_level > Hundred
    THEN Raised("invalid_parameter", <<"stand_in">>, None)
    ELSE Returned(Percentile(data, Hundred - confidence_level), <<"stand_in">>, None)

calculate_cvar_tool(returns, confidence_level, import_ok) ==
    LET r == CvarToolFn(import_ok, returns, confidence_level)
    IN  IF r.outcome = "raised" THEN Dict([error |-> r.error], r.steps)
        ELSE IF confidence_level < 0 \/ confidence_level > Hundred
        THEN Dict([error |-> "invalid_parameter"], r.steps)
        ELSE Dict([cvar |-> r.value,
                   var |-> Percentile(returns, Hundred - confidence_level),
                   confidence_level |-> confidence_level,
                   mean_return |-> IF returns.nan # {} THEN NaNFrac
                                   ELSE Frac(SumSeq(returns.vals), Len(returns.vals)),
                   volatility_sq |-> IF returns.nan # {} THEN NaNFrac
                                     ELSE Frac(VarNum(returns.vals),
                                               Len(returns.vals) * Len(returns.vals)),
                   observations |-> Len(returns.vals),
                   risk_interpretation |-> IF RiskHigh(r.value, returns)
                                           THEN "high" ELSE "moderate"], r.steps)

(***************************************************************************)
(* forecast_volatility_garch (tool), lines 135-177                         *)
(***************************************************************************)
FallbackWindow == 30
LongRunVol == 20            \* 0.2, in hundredths
DecayPercent == 98          \* 0.98 per step
AnnualDays == 252

\* in_sample_vol, forecast_vol = <result>: iterating a Series yields its values, so
\* the unpacking needs exactly two of them, and a value has no dropna()
UnpackPair(r) ==
    IF r.value.kind = "pair" THEN "ok"
    ELSE IF Len(r.value.vals) # 2 THEN "unpack_error"
    ELSE "attribute_error"

\* 0.98 ** i, times 10000, then current * 0.98^i + 0.2 * (1 - 0.98^i) times 10^6
RECURSIVE Decay(_)
Decay(i) == IF i = 0 THEN Hundred * Hundred ELSE (Decay(i - 1) * DecayPercent) \div Hundred

\* a forecast that stops one step early
ForecastVolsShort(current_vol, forecast_horizon) ==
    [k \in 1..(forecast_horizon - 1) |->
        current_vol * Decay(k - 1) + LongRunVol * (Hundred * Hundred - Decay(k - 1))]

\* [current_vol * 0.98 ** i + 0.2 * (1 - 0.98 ** i) for i in range(forecast_horizon)]
ForecastVols(current_vol, forecast_horizon) ==
    [k \in 1..forecast_horizon |->
        current_vol * Decay(k - 1) + LongRunVol * (Hundred * Hundred - Decay(k - 1))]

\* rolling(30).std() * sqrt(252), in hundredths
RollingVol(data) ==
    [i \in 1..Len(data.vals) |->
        IF i < FallbackWindow \/ IsNaNAt(data, i - FallbackWindow + 1, i) THEN None
        ELSE Some(Isqrt((VarNum(SubSeq(data.vals, i - FallbackWindow + 1, i))
                          * AnnualDays * Hundred * Hundred)
                        \div (FallbackWindow * (FallbackWindow - 1))))]

GarchFallback(returns, forecast_horizon) ==
    LET rolling_vol == RollingVol(returns)
        last == rolling_vol[Len(rolling_vol)]
        current_vol == IF last = None THEN LongRunVol ELSE last[1]
    IN  Dict([in_sample_volatility |-> Somes(rolling_vol),
              forecast_volatility |-> ForecastVols(current_vol, forecast_horizon),
              forecast_horizon |-> forecast_horizon,
              current_volatility |-> current_vol,
              volatility_trend |-> "mean_reverting",
              method |-> "fallback_rolling_volatility"], <<"fallback">>)

\* the function the tool got from safe_import_analysis_functions, applied
GarchToolFn(import_ok, returns, forecast_horizon, lib) ==
    IF import_ok THEN fit_garch_forecast(returns, forecast_horizon, "range", lib)
    ELSE \* (pd.Series(randn(len(data))), pd.Series(randn(forecast_horizon)))
         Returned([kind |-> "pair",
                   in_sample |-> [i \in 1..Len(returns.vals) |-> lib.noise[1]],
                   forecast |-> [i \in 1..forecast_horizon |-> lib.noise[i]]],
                  <<"stand_in">>, None)

forecast_volatility_garch(returns, forecast_horizon, import_ok, lib) ==
    LET r == GarchToolFn(import_ok, returns, forecast_horizon, lib)
    IN  IF r.outcome = "raised" THEN GarchFallback(returns, forecast_horizon)
        ELSE IF UnpackPair(r) # "ok" THEN GarchFallback(returns, forecast_horizon)
        ELSE Dict([in_sample_volatility |-> r.value.in_sample,
                   forecast_volatility |-> r.value.forecast,
                   forecast_horizon |-> forecast_horizon,
                   current_volatility |-> r.value.in_sample[Len(r.value.in_sample)],
                   volatility_trend |->
                       IF forecast_horizon > 1
                          /\ r.value.forecast[forecast_horizon] > r.value.forecast[1]
                       THEN "increasing" ELSE "stable"], r.steps)

(***************************************************************************)
(* core/main.py: POST /api/v1/analysis/volatility/garch, lines 447-464.    *)
(* GARCHRequest admits at least GarchRequestMinItems returns.              *)
(***************************************************************************)
GarchRequestMinItems == 100

estimate_garch_model(returns, forecast_horizon, lib) ==
    LET r == fit_garch_forecast(returns, forecast_horizon, "datetime", lib)
    IN  IF r.outcome = "raised" THEN [status |-> 500, detail |-> r.error]
        ELSE IF UnpackPair(r) # "ok" THEN [status |-> 500, detail |-> UnpackPair(r)]
        ELSE [status |-> 200, detail |-> "",
              data |-> [in_sample_volatility |-> r.value.in_sample,
                        forecast_volatility |-> r.value.forecast]]


(***************************************************************************)
(* detect_market_regimes (tool), lines 180-258                             *)
(***************************************************************************)
RegimeWindow == 20
LowPercentile == 33
HighPercentile == 67
FallbackNames == 3          \* ["low_volatility", "medium_volatility", "high_volatility"]

Count(s, x) == Cardinality({ i \in DOMAIN s : s[i] = x })

\* a labelling that puts an observation without a rolling value in the low regime
FallbackLabelsMissingLow(data) ==
    LET rolling_vol == RollingStd(data, RegimeWindow)
        vols == Somes(rolling_vol)
        p_low == Quantile100(vols, LowPercentile)
        p_high == Quantile100(vols, HighPercentile)
    IN  [i \in 1..Len(rolling_vol) |->
            IF rolling_vol[i] = None THEN 0
            ELSE IF Hundred * rolling_vol[i][1] < p_low THEN 0
            ELSE IF Hundred * rolling_vol[i][1] < p_high THEN 1
            ELSE 2]

\* lines 221-235: one label per observation, from its rolling standard deviation
FallbackLabels(data) ==
    LET rolling_vol == RollingStd(data, RegimeWindow)
        vols == Somes(rolling_vol)
        p_low == Quantile100(vols, LowPercentile)
        p_high == Quantile100(vols, HighPercentile)
    IN  [i \in 1..Len(rolling_vol) |->
            IF rolling_vol[i] = None THEN 1
            ELSE IF Hundred * rolling_vol[i][1] < p_low THEN 0
            ELSE IF Hundred * rolling_vol[i][1] < p_high THEN 1
            ELSE 2]

RegimeFallback(data, n_regimes) ==
    LET regimes == FallbackLabels(data)
    IN  IF n_regimes > FallbackNames
        THEN \* the list of three names is indexed with i = 3: the IndexError is raised
             \* inside the except block and leaves the tool
             Raised("index_error", <<"fallback">>, None)
        ELSE Dict([regime_labels |-> regimes,
                   current_regime |-> regimes[Len(regimes)],
                   regime_characteristics |->
                       [i \in 0..(n_regimes - 1) |-> [frequency |-> Count(regimes, i)]],
                   n_regimes |-> n_regimes,
                   transition_matrix |-> <<>>,
                   method |-> "fallback_volatility_based"], <<"fallback">>)

\* the function the tool got from safe_import_analysis_functions, applied
RegimeToolFn(import_ok, data, n_regimes, hmm_available, lib) ==
    IF import_ok THEN detect_hmm_regimes(data, n_regimes, hmm_available, lib)
    ELSE IF n_regimes < 1
    THEN \* numpy.random.randint(0, n_regimes, ...) with low >= high
         Raised("invalid_parameter", <<"stand_in">>, None)
    ELSE Returned([regimes |-> [index |-> <<>>,
                                vals |-> [i \in 1..Len(data.vals) |->
                                            HmmLabel(lib.pattern, i, n_regimes)]],
                   model |-> None],
                  <<"stand_in">>, None)

detect_market_regimes(data, n_regimes, import_ok, hmm_available, lib) ==
    LET r == RegimeToolFn(import_ok, data, n_regimes, hmm_available, lib)
    IN  IF r.outcome = "raised" THEN RegimeFallback(data, n_regimes)
        ELSE IF r.value.model # None /\ data.nan # {}
        THEN \* data_series[regime_mask]: the mask is indexed by the cleaned series
             RegimeFallback(data, n_regimes)
        ELSE IF r.value.model # None
        THEN \* regimes[-1] on a Series with an integer index is a label lookup
             RegimeFallback(data, n_regimes)
        ELSE Dict([regime_labels |-> r.value.regimes.vals,
                   current_regime |-> r.value.regimes.vals[Len(r.value.regimes.vals)],
                   regime_characteristics |->
                       [i \in 0..(n_regimes - 1) |->
                           [frequency |-> Count(r.value.regimes.vals, i)]],
                   n_regimes |-> n_regimes,
                   transition_matrix |-> <<>>], r.steps)


(***************************************************************************)
(* analysis/regime.py: analyze_hurst_regimes.  The rolling Hurst values of *)
(* the full windows without a missing value, each with its regime name.    *)
(***************************************************************************)
\* np.select(conditions, choices, default='N/A') for one Hurst value
HurstRegimeName(h) ==
    IF h.nan THEN "N/A"
    ELSE IF h.v < MeanRevertingBelow THEN "Mean-Reverting"
    ELSE IF h.v >= MeanRevertingBelow /\ h.v <= PersistentAbove THEN "Random Walk"
    ELSE IF h.v > PersistentAbove THEN "Trending"
    ELSE "N/A"

analyze_hurst_regimes(series, window, hurst_available, ulp, slope) ==
    LET wins == RollingWindows(series, window)
        value(i) == calculate_hurst(WindowAt(series, window, i), DefaultMinWindow, None,
                                    ulp, slope)
        index == SelectSeq([i \in 1..Len(series.vals) |-> i], LAMBDA i : i \in wins)
    IN  IF ~hurst_available THEN Raised("import_error", <<>>, None)
        ELSE IF \E i \in wins : value(i).outcome = "raised"
        THEN Raised("insufficient_data", <<"rolling">>, None)
        ELSE Returned([k \in DOMAIN index |->
                          [index |-> index[k], hurst |-> value(index[k]).value,
                           hurst_regime |-> HurstRegimeName(value(index[k]).value)]],
                      <<"rolling", "dropna", "select">>, None)

(***************************************************************************)
(* analysis/endpoints.py: calculate_hurst_exponent, the estimator the      *)
(* endpoints use.  prices are given by their logarithms, so that           *)
(* np.diff(np.log(prices)) is Diff(log_prices).                            *)
(***************************************************************************)
EndpointMinLen == 100
EndpointMaxLag == 100
EndpointLagDivisor == 4
EndpointFirstLag == 2
EndpointShortHurst == 50        \* 0.5, in hundredths

\* range(2, min(N//4, 100))
EndpointLags(N) ==
    LET stop == IF N \div EndpointLagDivisor < EndpointMaxLag
                THEN N \div EndpointLagDivisor ELSE EndpointMaxLag
    IN  [i \in 1..(stop - EndpointFirstLag) |-> i + EndpointFirstLag - 1]

\* the chunks of lag log returns whose np.std is > 0: each adds one R/S value
EndpointChunks(log_returns, lag) ==
    { k \in 0..((Len(log_returns) \div lag) - 1) : StdPositive(log_returns, k * lag, lag) }

\* lines 65-82: one entry per lag, the mean R/S of its chunks or the value 1.0
EndpointRsValues(log_returns, lags) ==
    [i \in DOMAIN lags |->
        [lag |-> lags[i], n |-> Cardinality(EndpointChunks(log_returns, lags[i])),
         placeholder |-> EndpointChunks(log_returns, lags[i]) = {}]]

endpoint_calculate_hurst_exponent(log_prices, slope) ==
    LET N == Len(log_prices)
        lags == EndpointLags(N)
        rs_values == EndpointRsValues(Diff(log_prices), lags)
        \* np.polyfit(log_lags, log_rs, 1)[0]: 0 when every log_rs is log(1.0)
        hurst == IF \A i \in DOMAIN rs_values : rs_values[i].placeholder
                 THEN Float(0) ELSE Float(slope)
    IN  IF N < EndpointMinLen
        THEN Returned([hurst_exponent |-> Float(EndpointShortHurst), data_points |-> N,
                       interpretation |-> "insufficient_data"], <<>>, None)
        ELSE Returned([hurst_exponent |-> hurst, data_points |-> N,
                       interpretation |->
                           IF hurst.v < MeanRevertingBelow THEN "mean_reverting"
                           ELSE IF hurst.v > PersistentAbove THEN "persistent"
                           ELSE "random_walk"],
                      <<"log_returns", "rs", "regress">>,
                      [lags |-> lags, rs_values |-> rs_values])

(***************************************************************************)
(* analysis/endpoints.py: calculate_portfolio_cvar, POST                   *)
(* /api/v1/analysis/risk/cvar.  The answer is its HTTP status and, for an  *)
(* error, the exception that was raised first inside the try block.        *)
(***************************************************************************)
CvarRequestMinLen == 30
HttpBadRequest == 400
HttpNotImplemented == 501
HttpServerError == 500
HttpOk == 2 * Hundred

\* lines 133-154: the body of the try block
CvarEndpointTry(returns, confidence_level, cvar_available) ==
    IF ~cvar_available THEN Raised("http", <<>>, [status_code |-> HttpNotImplemented])
    ELSE IF Len(returns.vals) < CvarRequestMinLen
    THEN Raised("http", <<>>, [status_code |-> HttpBadRequest])
    ELSE IF ~(0 < confidence_level /\ confidence_level < Hundred)
    THEN Raised("http", <<>>, [status_code |-> HttpBadRequest])
    ELSE calculate_cvar(returns, confidence_level, TRUE)

\* lines 162-164: `except Exception` also catches the HTTPExceptions raised in
\* the try block and answers every one of them with status 500
calculate_portfolio_cvar(returns, confidence_level, cvar_available) ==
    LET r == CvarEndpointTry(returns, confidence_level, cvar_available)
    IN  IF r.outcome = "raised"
        THEN Returned([status_code |-> HttpServerError, success |-> FALSE], r.steps,
                      [raised |-> r.error, first |-> r.aux])
        ELSE Returned([status_code |-> HttpOk, success |-> TRUE, cvar |-> r.value,
                       confidence_level |-> confidence_level,
                       data_points |-> Len(returns.vals)], r.steps, None)

(***************************************************************************)
(* The inputs                                                              *)
(***************************************************************************)
MaxHorizon == 3     \* forecast horizons 1..MaxHorizon
MaxCvarLen == 3     \* return series for CVaR hold up to this many observations
MaxDays == 2        \* fBm paths of up to this many days
MaxRegimes == 4     \* regime counts 0..MaxRegimes

Around(m) == (m - Slack)..(m + Slack)

HurstSeries == SeriesOfLen(Around(HurstMinLen))
DfaSeries == SeriesOfLen(Around(DfaMinLen))
MfSeries ==
    { MkSeries(n, "alt", k) : n \in Around(MfMinLen), k \in 0..MaxNaN }
    \cup { MkSeries(MfMinLen, "alt", MaxGap) }
FitSeries == { MkSeries(n, "alt", k) : n \in Around(GarchMinLen), k \in 0..MaxNaN }
EndpointSeries ==
    { MkSeries(n, "alt", 0) : n \in {GarchRequestMinItems, GarchRequestMinItems + 1} }
ToolSeries == SeriesOfLen({FallbackWindow - 1, FallbackWindow, GarchMinLen - 1,
                           GarchMinLen, GarchMinLen + 1})

\* the tool series, and series whose volatility rises in two steps
RegimeSeries ==
    ToolSeries \cup { MkSeries(n, "burst", k) : n \in {GarchMinLen, GarchMinLen + 1},
                                                k \in 0..MaxNaN }

Slopes == {-50, 44, 45, 55, 56, 150}     \* regression slopes, in hundredths
DfaSlopes == {-50, 50, 150}

SeqsUpTo(S, n) == UNION { [1..k -> S] : k \in 0..n }

CvarSeries ==
    { [vals |-> v, nan |-> m] : v \in SeqsUpTo(-2..2, MaxCvarLen), m \in {{}, {1}} }
    \cap { s \in [vals : SeqsUpTo(-2..2, MaxCvarLen), nan : {{}, {1}}] :
             s.nan \subseteq DOMAIN s.vals }

Confidences == {0, 50, 75, 95, 100}

ConfidenceLists == {<<90, 95, 99>>, <<50>>, <<75, 100>>}

GarchLibs(h) ==
    [t_ok : BOOLEAN, normal_ok : BOOLEAN, variance : [1..h -> {0, 9}], noise : {<<>>}]

NoiseLibs(h) ==
    [t_ok : {TRUE}, normal_ok : {TRUE}, variance : {<<>>}, noise : [1..h -> {-1, 1}]]

HmmLibs == [fit_ok : BOOLEAN, pattern : {"first", "cycle", "last"}]

CvarEndpointSeries == SeriesOfLen({CvarRequestMinLen - 1, CvarRequestMinLen})

\* logarithms of the price lists sent to the Hurst endpoint
EndpointPrices ==
    { MkSeries(n, sh, 0).vals :
        n \in {EndpointMinLen - 1, EndpointMinLen, EndpointMinLen + 1}, sh \in Shapes }

(***************************************************************************)
(* numpy's global generator, shared by every thread of the process.  Its   *)
(* state is the seed it was last given and the number of draws made since; *)
(* a seed fixes the whole stream.  The stream is a fixed pseudo-random     *)
(* table of -1 / 1 shocks that repeats after Period draws.                 *)
(***************************************************************************)
MaxSeed == 2
Period == 2 * MaxDays

Threads == {1, 2}

Normal(seed, pos) == IF ((seed + pos * (seed + 1)) \div 2) % 2 = 0 THEN 1 ELSE -1

\* np.random.seed(s)
Seed(s) == [seed |-> s, pos |-> 0]

\* n successive np.random.normal draws from the generator in state g
Draw(g, n) ==
    [values |-> [i \in 1..n |-> Normal(g.seed, (g.pos + i - 1) % Period)],
     state |-> [seed |-> g.seed, pos |-> (g.pos + n) % Period]]

\* a sampler that seeds the generator itself before it draws
FbmSampleReseeding(g, n) == Draw(Seed(0), n)

\* FBM(n=days, ...).fbm(): the package draws its normals from the global generator
FbmSample(g, n) == Draw(g, n)

(***************************************************************************)
(* ai/tools/quant_tools.py: run_monte_carlo_simulation.  One shock is      *)
(* drawn per day of every path; drift is 0 and the daily diffusion is one  *)
(* tenth, so a step multiplies the value by (10 + shock) / 10.  Values are *)
(* kept as numerators over 10 ^ time_horizon.                              *)
(***************************************************************************)
Ten == 2 * 5

PathFinal(initial_value, shocks) ==
    LET p[j \in 0..Len(shocks)] ==
            IF j = 0 THEN initial_value ELSE p[j - 1] * (Ten + shocks[j])
    IN  p[Len(shocks)]

run_monte_carlo_simulation(initial_value, time_horizon, num_simulations, shocks) ==
    LET final_values ==
            [k \in 1..num_simulations |->
                PathFinal(initial_value,
                          SubSeq(shocks, (k - 1) * time_horizon + 1, k * time_horizon))]
    IN  [simulation_results |->
            [mean_final_value |-> Frac(SumSeq(final_values), num_simulations),
             min_final_value |-> Sort(final_values)[1],
             max_final_value |-> Sort(final_values)[num_simulations]],
         simulation_parameters |->
            [initial_value |-> initial_value, time_horizon |-> time_horizon,
             num_simulations |-> num_simulations]]

(***************************************************************************)
(* ai/tools/data_tools.py: _generate_sample_data.  The ticker is given by  *)
(* its hash; the close prices are initial_price * exp(cumsum(returns)).    *)
(***************************************************************************)
SampleDraws == 4    \* returns, highs, lows and volumes: four draws of num_days values

generate_sample_data(ticker_hash, num_days, returns) ==
    [data_points |-> num_days,
     close |-> Prices(Hundred + ticker_hash, CumSum(returns))]

(***************************************************************************)
(* A thread is idle, or between two steps of a call: its caller has seeded *)
(* the generator ("seeded"), it is inside the simulation loop ("loop"), it *)
(* has seeded the generator for sample data ("reseeded"), or it holds its  *)
(* result ("done").  alone records that no other thread touched the        *)
(* generator since this thread's call began.                               *)
(***************************************************************************)
IdleThread ==
    [pc |-> "idle", op |-> "none", seed |-> 0, n |-> 0,
     shocks |-> <<>>, alone |-> TRUE, result |-> None, after |-> None]

InCall(th) == th.pc \in {"seeded", "loop", "reseeded"}

\* thread t moves to new; every other thread inside a call sees the generator change
Touch(t, new) ==
    [u \in Threads |->
        IF u = t THEN new
        ELSE IF InCall(thr[u]) THEN [thr[u] EXCEPT !.alone = FALSE]
        ELSE thr[u]]

Init ==
    /\ fn = "idle" /\ args = None /\ res = None
    /\ rng = Seed(0)
    /\ thr = [t \in Threads |-> IdleThread]

CallHurst ==
    /\ fn = "idle"
    /\ UNCHANGED <<rng, thr>>
    /\ \E series \in HurstSeries, min_window \in {5, DefaultMinWindow},
          max_window \in {None, Some(MaxScale)}, ulp \in Ulps, slope \in Slopes :
         /\ fn' = "calculate_hurst"
         /\ args' = [series |-> series, min_window |-> min_window, max_window |-> max_window,
              ulp |-> ulp, slope |-> slope]
         /\ res' = calculate_hurst(series, min_window, max_window, ulp, slope)

CallDfa ==
    /\ fn = "idle"
    /\ UNCHANGED <<rng, thr>>
    /\ \E series \in DfaSeries, min_box_size \in {5, DefaultMinBox},
          max_box_size \in {None, Some(5), Some(MaxScale), Some(4 * MaxScale)},
          order \in {DefaultOrder, 2}, ulp \in Ulps, slope \in DfaSlopes :
         /\ fn' = "calculate_dfa"
         /\ args' = [series |-> series, min_box_size |-> min_box_size,
              max_box_size |-> max_box_size, order |-> order, ulp |-> ulp, slope |-> slope]
         /\ res' = calculate_dfa(series, min_box_size, max_box_size, order, ulp, slope)

CallMultifractal ==
    /\ fn = "idle"
    /\ UNCHANGED <<rng, thr>>
    /\ \E series \in MfSeries, q \in {<<-20, 20>>, <<0, 1>>}, ulp \in Ulps :
         /\ fn' = "calculate_multifractal_spectrum"
         /\ args' = [series |-> series, q_range |-> q, ulp |-> ulp]
         /\ res' = calculate_multifractal_spectrum(series, q[1], q[2], ulp)

CallFbm ==
    /\ fn = "idle"
    /\ UNCHANGED <<rng, thr>>
    /\ \E initial_price \in {0, 100}, hurst \in {0, 3, 5, HurstOne, 12}, days \in 1..MaxDays,
          volatility \in {0, 2} :
         \E increments \in [1..days -> {-1, 1}] :
         /\ fn' = "generate_fbm_path"
         /\ args' = [initial_price |-> initial_price, hurst |-> hurst, days |-> days,
              volatility |-> volatility, drift |-> 1, increments |-> increments]
         /\ res' = generate_fbm_path(initial_price, hurst, days, volatility, 1, increments)

CallCvar ==
    /\ fn = "idle"
    /\ UNCHANGED <<rng, thr>>
    /\ \E returns \in CvarSeries, confidence_level \in Confidences, is_series \in BOOLEAN :
         /\ fn' = "calculate_cvar"
         /\ args' = [returns |-> returns, confidence_level |-> confidence_level,
              is_series |-> is_series]
         /\ res' = calculate_cvar(returns, confidence_level, is_series)

CallMultiVar ==
    /\ fn = "idle"
    /\ UNCHANGED <<rng, thr>>
    /\ \E portfolio_returns \in CvarSeries, confidence_levels \in ConfidenceLists,
          is_series \in BOOLEAN :
         /\ fn' = "calculate_multi_level_var"
         /\ args' = [portfolio_returns |-> portfolio_returns,
                     confidence_levels |-> confidence_levels, is_series |-> is_series]
         /\ res' = calculate_multi_level_var(portfolio_returns, confidence_levels, is_series)

CallGarch ==
    /\ fn = "idle"
    /\ UNCHANGED <<rng, thr>>
    /\ \E returns \in FitSeries, h \in 1..MaxHorizon, index \in {"datetime", "range"} :
         \E lib \in GarchLibs(h) :
         /\ fn' = "fit_garch_forecast"
         /\ args' = [returns |-> returns, forecast_horizon |-> h, index |-> index, lib |-> lib]
         /\ res' = fit_garch_forecast(returns, h, index, lib)

CallHmm ==
    /\ fn = "idle"
    /\ UNCHANGED <<rng, thr>>
    /\ \E returns \in FitSeries, n_regimes \in 0..MaxRegimes, hmm_available \in BOOLEAN,
          lib \in HmmLibs :
         /\ fn' = "detect_hmm_regimes"
         /\ args' = [returns |-> returns, n_regimes |-> n_regimes,
              hmm_available |-> hmm_available, lib |-> lib]
         /\ res' = detect_hmm_regimes(returns, n_regimes, hmm_available, lib)

ToolHurst ==
    /\ fn = "idle"
    /\ UNCHANGED <<rng, thr>>
    /\ \E data \in ToolSeries \cup HurstSeries,
          window_size \in {None, Some(HurstMinLen), Some(RollingMinLen)},
          import_ok \in BOOLEAN, hi \in BOOLEAN, slope \in Slopes :
         /\ fn' = "tool.calculate_hurst_exponent"
         /\ args' = [data |-> data, window_size |-> window_size, import_ok |-> import_ok,
              ulp |-> [lo |-> FALSE, hi |-> hi], slope |-> slope]
         /\ res' = calculate_hurst_exponent(data, window_size, import_ok,
                                      [lo |-> FALSE, hi |-> hi], slope)

ToolCvar ==
    /\ fn = "idle"
    /\ UNCHANGED <<rng, thr>>
    /\ \E returns \in { s \in CvarSeries : s.vals # <<>> }, confidence_level \in Confidences,
          import_ok \in BOOLEAN :
         /\ fn' = "tool.calculate_cvar"
         /\ args' = [returns |-> returns, confidence_level |-> confidence_level,
              import_ok |-> import_ok]
         /\ res' = calculate_cvar_tool(returns, confidence_level, import_ok)

ToolGarch ==
    /\ fn = "idle"
    /\ UNCHANGED <<rng, thr>>
    /\ \E returns \in ToolSeries, h \in 1..MaxHorizon, import_ok \in BOOLEAN :
         \E lib \in IF import_ok THEN GarchLibs(h) ELSE NoiseLibs(h) :
         /\ fn' = "tool.forecast_volatility_garch"
         /\ args' = [returns |-> returns, forecast_horizon |-> h, import_ok |-> import_ok,
              lib |-> lib]
         /\ res' = forecast_volatility_garch(returns, h, import_ok, lib)

ToolRegimes ==
    /\ fn = "idle"
    /\ UNCHANGED <<rng, thr>>
    /\ \E data \in RegimeSeries, n_regimes \in 0..MaxRegimes, import_ok \in BOOLEAN,
          hmm_available \in BOOLEAN, lib \in HmmLibs :
         /\ fn' = "tool.detect_market_regimes"
         /\ args' = [data |-> data, n_regimes |-> n_regimes, import_ok |-> import_ok,
              hmm_available |-> hmm_available, lib |-> lib]
         /\ res' = detect_market_regimes(data, n_regimes, import_ok, hmm_available, lib)

EndpointGarch ==
    /\ fn = "idle"
    /\ UNCHANGED <<rng, thr>>
    /\ \E returns \in EndpointSeries, h \in 1..MaxHorizon :
         \E lib \in GarchLibs(h) :
         /\ fn' = "endpoint.estimate_garch_model"
         /\ args' = [returns |-> returns, forecast_horizon |-> h, lib |-> lib]
         /\ res' = estimate_garch_model(returns, h, lib)

AnalyzeHurstRegimes ==
    /\ fn = "idle"
    /\ UNCHANGED <<rng, thr>>
    /\ \E series \in HurstSeries, window \in {HurstMinLen, HurstMinLen + Slack - 2},
          hurst_available \in BOOLEAN, hi \in BOOLEAN, slope \in Slopes :
         /\ fn' = "analyze_hurst_regimes"
         /\ args' = [series |-> series, window |-> window, hurst_available |-> hurst_available,
              ulp |-> [lo |-> FALSE, hi |-> hi], slope |-> slope]
         /\ res' = analyze_hurst_regimes(series, window, hurst_available,
                                         [lo |-> FALSE, hi |-> hi], slope)

EndpointCvar ==
    /\ fn = "idle"
    /\ UNCHANGED <<rng, thr>>
    /\ \E returns \in CvarEndpointSeries, confidence_level \in Confidences,
          cvar_available \in BOOLEAN :
         /\ fn' = "endpoint.calculate_portfolio_cvar"
         /\ args' = [returns |-> returns, confidence_level |-> confidence_level,
              cvar_available |-> cvar_available]
         /\ res' = calculate_portfolio_cvar(returns, confidence_level, cvar_available)

EndpointHurst ==
    /\ fn = "idle"
    /\ UNCHANGED <<rng, thr>>
    /\ \E log_prices \in EndpointPrices, slope \in Slopes :
         /\ fn' = "endpoint.calculate_hurst_exponent"
         /\ args' = [log_prices |-> log_prices, slope |-> slope]
         /\ res' = endpoint_calculate_hurst_exponent(log_prices, slope)

\* the caller takes the result
Done ==
    /\ fn # "idle"
    /\ fn' = "idle" /\ args' = None /\ res' = None
    /\ UNCHANGED <<rng, thr>>

Next ==
    \/ CallHurst
    \/ CallDfa
    \/ CallMultifractal
    \/ CallFbm
    \/ CallCvar
    \/ CallMultiVar
    \/ CallGarch
    \/ CallHmm
    \/ ToolHurst
    \/ ToolCvar
    \/ ToolGarch
    \/ ToolRegimes
    \/ EndpointGarch
    \/ EndpointHurst
    \/ EndpointCvar
    \/ AnalyzeHurstRegimes
    \/ Done

Spec == Init /\ [][Next]_vars

(***************************************************************************)
(* The calls that draw pseudo-random numbers, made from parallel threads.  *)
(* A step is what runs between two points where the interpreter may switch *)
(* threads: one numpy call.                                                *)
(***************************************************************************)
\* the caller seeds the generator before it calls the function
CallerSeeds(t) ==
    /\ thr[t].pc = "idle"
    /\ \E op \in {"generate_fbm_path", "run_monte_carlo_simulation"},
          s \in 1..MaxSeed, n \in 1..MaxDays :
         /\ rng' = Seed(s)
         /\ thr' = Touch(t, [IdleThread EXCEPT !.pc = "seeded", !.op = op, !.seed = s,
                                               !.n = n])
    /\ UNCHANGED <<fn, args, res>>

\* generate_fbm_path draws its sample and returns the path
ThreadFbm(t) ==
    /\ thr[t].pc = "seeded"
    /\ thr[t].op = "generate_fbm_path"
    /\ LET d == FbmSample(rng, thr[t].n)
       IN  /\ rng' = d.state
           /\ thr' = Touch(t, [thr[t] EXCEPT
                        !.pc = "done",
                        !.result = generate_fbm_path(Hundred, HurstOne \div 2, thr[t].n, 2, 1,
                                                     d.values),
                        !.after = d.state])
    /\ UNCHANGED <<fn, args, res>>

\* one pass of the inner loop of run_monte_carlo_simulation(time_horizon=n,
\* num_simulations=1): one shock is drawn
ThreadShock(t) ==
    /\ thr[t].pc \in {"seeded", "loop"}
    /\ thr[t].op = "run_monte_carlo_simulation"
    /\ LET d == Draw(rng, 1)
           shocks == thr[t].shocks \o d.values
       IN  /\ rng' = d.state
           /\ thr' = Touch(t,
                  IF Len(shocks) < thr[t].n
                  THEN [thr[t] EXCEPT !.pc = "loop", !.shocks = shocks]
                  ELSE [thr[t] EXCEPT
                           !.pc = "done", !.shocks = shocks,
                           !.result = run_monte_carlo_simulation(Hundred, thr[t].n, 1,
                                                                 shocks),
                           !.after = d.state])
    /\ UNCHANGED <<fn, args, res>>

\* _generate_sample_data seeds the generator with the ticker's hash
SampleSeeds(t) ==
    /\ thr[t].pc = "idle"
    /\ \E ticker_hash \in 1..MaxSeed, num_days \in 1..MaxDays :
         /\ rng' = Seed(ticker_hash)
         /\ thr' = Touch(t, [IdleThread EXCEPT !.pc = "reseeded", !.op = "_generate_sample_data",
                                               !.seed = ticker_hash, !.n = num_days])
    /\ UNCHANGED <<fn, args, res>>

\* _generate_sample_data draws its returns, highs, lows and volumes
SampleDraw(t) ==
    /\ thr[t].pc = "reseeded"
    /\ LET d == Draw(rng, thr[t].n)
           rest == Draw(rng, SampleDraws * thr[t].n)
       IN  /\ rng' = rest.state
           /\ thr' = Touch(t, [thr[t] EXCEPT
                        !.pc = "done",
                        !.result = generate_sample_data(thr[t].seed, thr[t].n, d.values),
                        !.after = rest.state])
    /\ UNCHANGED <<fn, args, res>>

\* the thread's caller takes the result
ThreadReturns(t) ==
    /\ thr[t].pc = "done"
    /\ thr' = [thr EXCEPT ![t] = IdleThread]
    /\ UNCHANGED <<fn, args, res, rng>>

NextThreads ==
    \E t \in Threads :
        \/ CallerSeeds(t)
        \/ ThreadFbm(t)
        \/ ThreadShock(t)
        \/ SampleSeeds(t)
        \/ SampleDraw(t)
        \/ ThreadReturns(t)

SpecThreads == Init /\ [][NextThreads]_vars

\* what the thread's call returns when nothing else runs between its seeding and its end
RunAlone(th) ==
    IF th.op = "generate_fbm_path"
    THEN generate_fbm_path(Hundred, HurstOne \div 2, th.n, 2, 1, Draw(Seed(th.seed), th.n).values)
    ELSE IF th.op = "run_monte_carlo_simulation"
    THEN run_monte_carlo_simulation(Hundred, th.n, 1, Draw(Seed(th.seed), th.n).values)
    ELSE generate_sample_data(th.seed, th.n, Draw(Seed(th.seed), th.n).values)

(***************************************************************************)
(* Properties                                                              *)
(***************************************************************************)
Abs(x) == IF x < 0 THEN 0 - x ELSE x

LengthChecked ==
    {"calculate_hurst", "calculate_dfa", "calculate_multifractal_spectrum",
     "fit_garch_forecast", "detect_hmm_regimes"}

MinLenOf(f) ==
    CASE f = "calculate_hurst" -> HurstMinLen
      [] f = "calculate_dfa" -> DfaMinLen
      [] f = "calculate_multifractal_spectrum" -> MfMinLen
      [] f = "fit_garch_forecast" -> GarchMinLen
      [] f = "detect_hmm_regimes" -> HmmMinLen

\* the series a call of one of the five functions was given
CalledSeries == IF "series" \in DOMAIN args THEN args.series ELSE args.returns

ShortCall == fn \in LengthChecked /\ Len(CalledSeries.vals) < MinLenOf(fn)

NonConstant(s) == \E i, j \in DOMAIN s : s[i] # s[j]

ToolFns ==
    {"tool.calculate_hurst_exponent", "tool.calculate_cvar",
     "tool.forecast_volatility_garch", "tool.detect_market_regimes"}

FallbackMethods == {"fallback_rolling_volatility", "fallback_volatility_based"}

\* the tool answered with a dictionary holding key
HasKey(key) == res.outcome = "returned" /\ key \in DOMAIN res.value

\* the tool's answer came from a stand-in or from an except-branch substitute
SubstitutePath == \E i \in DOMAIN res.steps : res.steps[i] \in {"stand_in", "fallback"}

BothFitsFail == ~args.lib.t_ok /\ ~args.lib.normal_ok

(***************************************************************************)
(* C1 as stated: a call of calculate_hurst, calculate_dfa,                 *)
(* calculate_multifractal_spectrum, fit_garch_forecast or                  *)
(* detect_hmm_regimes on a series shorter than its minimum raises an       *)
(* insufficient-data error before any cleaning, scale generation or fit.   *)
(***************************************************************************)
C1_AsStated ==
    ShortCall =>
        /\ res.outcome = "raised"
        /\ res.error = "insufficient_data"
        /\ res.steps = <<>>

(***************************************************************************)
(* C1: a call of one of the five functions on a series shorter than its    *)
(* minimum raises before any cleaning, scale generation or fit; the error  *)
(* is the insufficient-data error, except that detect_hmm_regimes raises   *)
(* the import error when hmmlearn is not available, which it tests first.  *)
(***************************************************************************)
C1_ShortSeriesRaisesFirst ==
    ShortCall =>
        /\ res.outcome = "raised"
        /\ res.steps = <<>>
        /\ res.error = IF fn = "detect_hmm_regimes" /\ ~args.hmm_available
                       THEN "import_error" ELSE "insufficient_data"

C1_Witness ==
    /\ ShortCall
    /\ fn = "detect_hmm_regimes"
    /\ args.hmm_available
    /\ Len(args.returns.vals) = HmmMinLen - 1
    /\ res.error = "insufficient_data"

C3_AsStated ==
    /\ ( /\ fn = "calculate_hurst"
         /\ args.min_window = DefaultMinWindow
         /\ args.max_window = None
         /\ Len(dropna(args.series)) >= HurstMinLen
         /\ NonConstant(dropna(args.series)) )
       => res.outcome = "returned"
    /\ ( /\ fn = "calculate_dfa"
         /\ args.min_box_size = DefaultMinBox
         /\ args.max_box_size = None
         /\ Len(dropna(args.series)) >= DfaMinLen
         /\ NonConstant(dropna(args.series)) )
       => res.outcome = "returned"

(***************************************************************************)
(* C4 as stated: for a non-empty series and a confidence level in (0, 1)   *)
(* the magnitude of the CVaR is at least the magnitude of the VaR          *)
(* threshold.  CVaR is res.value.num / res.value.den, the threshold is     *)
(* res.aux.var_threshold.num / 100.                                        *)
(***************************************************************************)
C4_AsStated ==
    fn = "calculate_cvar" /\ res.outcome = "returned" /\ ~res.value.nan =>
        Abs(res.value.num) * Hundred >= Abs(res.aux.var_threshold.num) * res.value.den

(***************************************************************************)
(* C4: the CVaR is at least the negated VaR threshold (the tail mean is    *)
(* at or below the threshold); its magnitude is at least the threshold's   *)
(* magnitude whenever the threshold is not positive.                       *)
(***************************************************************************)
C4_CvarBeyondThreshold ==
    fn = "calculate_cvar" /\ res.outcome = "returned" /\ ~res.value.nan =>
        /\ res.value.den > 0
        /\ res.value.num * Hundred >= (0 - res.aux.var_threshold.num) * res.value.den
        /\ res.aux.var_threshold.num <= 0 =>
              Abs(res.value.num) * Hundred
                  >= Abs(res.aux.var_threshold.num) * res.value.den

C4_Witness ==
    /\ fn = "calculate_cvar"
    /\ res.outcome = "returned"
    /\ ~res.value.nan
    /\ res.aux.var_threshold.num < 0
    /\ res.aux.tail > 1
    /\ res.value.num * Hundred > (0 - res.aux.var_threshold.num) * res.value.den

(***************************************************************************)
(* C5 as stated: a tool result produced by a substitute path (an           *)
(* import-failure stand-in, the rolling-volatility fallback, the           *)
(* volatility-percentile fallback) carries a method marker naming it a     *)
(* fallback.                                                               *)
(***************************************************************************)
C5_AsStated ==
    fn \in ToolFns /\ res.outcome = "returned" /\ SubstitutePath
        /\ "error" \notin DOMAIN res.value =>
        /\ "method" \in DOMAIN res.value
        /\ res.value.method \in FallbackMethods

(***************************************************************************)
(* C6 as stated: forecast_volatility_garch or detect_market_regimes called *)
(* with a series shorter than the algorithm's minimum reports the error    *)
(* and returns no regime labels and no volatility forecast.                *)
(***************************************************************************)
C6_AsStated ==
    /\ ( /\ fn = "tool.forecast_volatility_garch"
         /\ args.import_ok
         /\ Len(args.returns.vals) < GarchMinLen )
       => HasKey("error") /\ ~HasKey("forecast_volatility")
    /\ ( /\ fn = "tool.detect_market_regimes"
         /\ args.import_ok
         /\ args.hmm_available
         /\ Len(args.data.vals) < HmmMinLen )
       => HasKey("error") /\ ~HasKey("regime_labels")

(***************************************************************************)
(* C7 as stated: when a GARCH fit succeeds fit_garch_forecast returns the  *)
(* pair (in-sample volatility, forecast), and the tool and the endpoint,   *)
(* which unpack that pair, return the model-based result.                  *)
(***************************************************************************)
C7_AsStated ==
    /\ fn = "fit_garch_forecast" /\ res.outcome = "returned"
       => res.value.kind = "pair"
    /\ ( /\ fn = "tool.forecast_volatility_garch"
         /\ args.import_ok
         /\ Len(args.returns.vals) >= GarchMinLen
         /\ ~BothFitsFail )
       => HasKey("forecast_volatility") /\ ~SubstitutePath
    /\ ( /\ fn = "endpoint.estimate_garch_model"
         /\ Len(args.returns.vals) >= GarchMinLen
         /\ ~BothFitsFail )
       => res.status = 200

(***************************************************************************)
(* C8: every GARCH forecast that is returned, by fit_garch_forecast or by  *)
(* the rolling-volatility fallback of the tool, has exactly                *)
(* forecast_horizon entries, each non-negative.                            *)
(***************************************************************************)
C8_ForecastLength ==
    /\ fn = "fit_garch_forecast" /\ res.outcome = "returned" =>
         /\ Len(res.value.vals) = args.forecast_horizon
         /\ \A i \in DOMAIN res.value.vals : res.value.vals[i] >= 0
    /\ fn = "tool.forecast_volatility_garch" /\ HasKey("method") =>
         /\ res.value.method = "fallback_rolling_volatility"
         /\ Len(res.value.forecast_volatility) = args.forecast_horizon
         /\ \A i \in DOMAIN res.value.forecast_volatility :
               res.value.forecast_volatility[i] >= 0

C8_Witness ==
    /\ fn = "tool.forecast_volatility_garch"
    /\ HasKey("method")
    /\ args.forecast_horizon = MaxHorizon
    /\ Len(res.value.forecast_volatility) = MaxHorizon
    /\ res.value.current_volatility > LongRunVol

(***************************************************************************)
(* C9 as stated: after the Student-t fit fails exactly one fallback fit    *)
(* (normal innovations) is attempted, and if that fails too the failure    *)
(* reaches the caller of the forecast request with its cause and no        *)
(* substitute result is produced.                                          *)
(***************************************************************************)
C9_AsStated ==
    /\ ( /\ fn = "fit_garch_forecast"
         /\ Len(args.returns.vals) >= GarchMinLen
         /\ BothFitsFail )
       => res.outcome = "raised" /\ res.error = "fit_error" /\ res.aux.fits = 2
    /\ ( /\ fn = "endpoint.estimate_garch_model"
         /\ Len(args.returns.vals) >= GarchMinLen
         /\ BothFitsFail )
       => res.status = 500 /\ res.detail = "fit_error"
    /\ ( /\ fn = "tool.forecast_volatility_garch"
         /\ args.import_ok
         /\ Len(args.returns.vals) >= GarchMinLen
         /\ BothFitsFail )
       => HasKey("error") /\ ~HasKey("forecast_volatility")

(***************************************************************************)
(* C10 as stated: a confidence level outside (0, 1) in calculate_cvar, a   *)
(* Hurst exponent outside (0, 1) in generate_fbm_path and a regime count   *)
(* below 2 in detect_hmm_regimes raise an invalid-parameter error before   *)
(* any computation on the data and any random draw.                        *)
(***************************************************************************)
C10_AsStated ==
    /\ ( /\ fn = "calculate_cvar"
         /\ args.is_series
         /\ ~(0 < args.confidence_level /\ args.confidence_level < Hundred) )
       => res.outcome = "raised" /\ res.error = "invalid_parameter" /\ res.steps = <<>>
    /\ ( /\ fn = "generate_fbm_path"
         /\ ~(0 < args.hurst /\ args.hurst < HurstOne) )
       => res.outcome = "raised" /\ res.error = "invalid_parameter" /\ res.steps = <<>>
    /\ ( /\ fn = "detect_hmm_regimes"
         /\ args.hmm_available
         /\ Len(args.returns.vals) >= HmmMinLen
         /\ args.n_regimes < 2 )
       => res.outcome = "raised" /\ res.error = "invalid_parameter" /\ res.steps = <<>>

(***************************************************************************)
(* C11 as stated: a risk record that reports both VaR and CVaR uses one    *)
(* sign convention, positive = loss: when the (1 - confidence)-quantile of *)
(* the returns is a loss (negative), the reported VaR and the reported     *)
(* CVaR are both positive.  This covers var/cvar of the calculate_cvar     *)
(* tool and value/expected_shortfall of calculate_multi_level_var.         *)
(***************************************************************************)
C11_AsStated ==
    /\ ( /\ fn = "tool.calculate_cvar"
         /\ args.import_ok
         /\ HasKey("cvar")
         /\ ~res.value.cvar.nan /\ ~res.value.var.nan
         /\ SeriesQuantile(args.returns, args.confidence_level).num < 0 )
       => res.value.var.num > 0 /\ res.value.cvar.num > 0
    /\ ( /\ fn = "calculate_multi_level_var"
         /\ HasKey("var_analysis") )
       => \A i \in DOMAIN res.value.var_analysis :
            LET e == res.value.var_analysis[i]
            IN  ~e.value.nan /\ ~e.expected_shortfall.nan
                /\ SeriesQuantile(args.portfolio_returns, e.confidence_level).num < 0
                => e.value.num > 0 /\ e.expected_shortfall.num > 0

(***************************************************************************)
(* C12 as stated: in every regime result with n_regimes >= 2, from the HMM *)
(* path or from the volatility fallback, regime_labels holds one label per *)
(* observation of the cleaned input, every label lies in 0..n_regimes-1,   *)
(* and the statistics map has an entry for every label that occurs.        *)
(***************************************************************************)
C12_AsStated ==
    /\ ( /\ fn = "detect_hmm_regimes"
         /\ res.outcome = "returned"
         /\ args.n_regimes >= 2 )
       => /\ Len(res.value.regimes.vals) = Len(dropna(args.returns))
          /\ \A i \in DOMAIN res.value.regimes.vals :
                res.value.regimes.vals[i] \in 0..(args.n_regimes - 1)
    /\ ( /\ fn = "tool.detect_market_regimes"
         /\ args.import_ok
         /\ HasKey("regime_labels")
         /\ args.n_regimes >= 2 )
       => /\ Len(res.value.regime_labels) = Len(dropna(args.data))
          /\ \A i \in DOMAIN res.value.regime_labels :
                /\ res.value.regime_labels[i] \in 0..(args.n_regimes - 1)
                /\ res.value.regime_labels[i] \in DOMAIN res.value.regime_characteristics

(***************************************************************************)
(* C13: calculate_cvar called with a valid confidence level on a series    *)
(* that is empty, or empty once missing values are removed, returns NaN    *)
(* and raises nothing.                                                     *)
(***************************************************************************)
C13_EmptyCvarIsNaN ==
    ( /\ fn = "calculate_cvar"
      /\ args.is_series
      /\ 0 < args.confidence_level /\ args.confidence_level < Hundred
      /\ Len(dropna(args.returns)) = 0 )
    => res.outcome = "returned" /\ res.value.nan

C13_Witness ==
    /\ fn = "calculate_cvar"
    /\ args.is_series
    /\ args.confidence_level = 95
    /\ Len(args.returns.vals) > 0
    /\ Len(dropna(args.returns)) = 0
    /\ res.outcome = "returned"
    /\ res.value.nan

C15_SeededFbmDeterministic ==
    \A t \in Threads :
        (thr[t].pc = "done" /\ thr[t].op = "generate_fbm_path" /\ thr[t].alone)
            => /\ thr[t].result = RunAlone(thr[t])
               /\ thr[t].after = Draw(Seed(thr[t].seed), thr[t].n).state
               /\ \A u \in Threads :
                    (thr[u].pc = "done" /\ thr[u].op = "generate_fbm_path" /\ thr[u].alone
                        /\ thr[u].seed = thr[t].seed /\ thr[u].n = thr[t].n)
                        => thr[u].result = thr[t].result

\* two seeded calls with identical arguments have both returned a path
C15_Witness ==
    /\ \A t \in Threads :
         /\ thr[t].pc = "done" /\ thr[t].op = "generate_fbm_path" /\ thr[t].alone
         /\ thr[t].result.outcome = "returned"
    /\ thr[1].seed = thr[2].seed /\ thr[1].n = thr[2].n

\* C16: concurrent invocations do not interfere: under every interleaving of
\* calls made from parallel threads, each call's result equals the result the
\* same call produces when run alone, including generate_fbm_path and
\* run_monte_carlo_simulation after their caller has seeded the generator,
\* and regardless of sample-data generation seeding it.
C16_AsStated ==
    \A t \in Threads : thr[t].pc = "done" => thr[t].result = RunAlone(thr[t])

\* C17: in calculate_hurst the two regression inputs have the same length and
\* come from the same retained scales: the i-th window size is the window that
\* produced the i-th averaged R/S value, and a window size with zero valid
\* windows appears in neither sequence.
C17_HurstPairsAligned ==
    (fn = "calculate_hurst" /\ res.aux # None)
        => LET scan == res.aux
               clean == dropna(args.series)
           IN  /\ Len(scan.rs_values) = Len(scan.window_sizes)
               /\ \A i \in DOMAIN scan.rs_values :
                    /\ scan.rs_values[i].window = scan.window_sizes[i]
                    /\ scan.rs_values[i].n = Cardinality(RsWindow(clean, scan.window_sizes[i]))
                    /\ scan.rs_values[i].n > 0
               /\ \A j \in DOMAIN scan.windows :
                    RsWindow(clean, scan.windows[j]) = {}
                        => \A i \in DOMAIN scan.window_sizes :
                             scan.window_sizes[i] # scan.windows[j]

\* a regression ran on at least three pairs while one candidate window was left out
C17_Witness ==
    /\ fn = "calculate_hurst"
    /\ res.outcome = "returned"
    /\ Len(res.aux.window_sizes) >= HurstMinPairs
    /\ Len(res.aux.window_sizes) < Len(res.aux.windows)

\* C18: in calculate_dfa the regression pairs each averaged fluctuation with
\* the box size that produced it: the i-th entry of the box-size vector used
\* for the regression (the first len(fluctuations) candidate box sizes) is the
\* box size from which the i-th fluctuation was computed.
C18_DfaPairsAligned ==
    (fn = "calculate_dfa" /\ res.outcome = "returned")
        => /\ Len(res.aux.log_sizes) = Len(res.aux.fluctuations)
           /\ \A i \in DOMAIN res.aux.fluctuations :
                res.aux.log_sizes[i] = res.aux.fluctuations[i].box_size

\* a regression ran although some candidate box size was longer than the series
C18_Witness ==
    /\ fn = "calculate_dfa"
    /\ res.outcome = "returned"
    /\ Len(res.aux.fluctuations) < Len(res.aux.box_sizes)

\* C19: the series on which each algorithm computes (the input after missing
\* values are removed) has length >= the algorithm's minimum: an input whose
\* length after removing missing values is below the minimum is rejected.
C19_AsStated ==
    (fn \in LengthChecked /\ Len(dropna(CalledSeries)) < MinLenOf(fn))
        => res.outcome = "raised"

StrictlyAscending(s) == \A i \in DOMAIN s : i < Len(s) => s[i] < s[i + 1]

\* C20: in calculate_hurst, calculate_dfa and calculate_multifractal_spectrum
\* the scale set is strictly ascending without duplicates, and every scale on
\* which a statistic is computed is >= the configured minimum window / box
\* size and <= the length of the series being analysed.
C20_AsStated ==
    /\ (fn = "calculate_hurst" /\ res.aux # None)
          => /\ StrictlyAscending(res.aux.windows)
             /\ \A i \in DOMAIN res.aux.window_sizes :
                  /\ res.aux.window_sizes[i] >= args.min_window
                  /\ res.aux.window_sizes[i] <= res.aux.n
    /\ (fn = "calculate_dfa" /\ res.aux # None)
          => /\ StrictlyAscending(res.aux.box_sizes)
             /\ \A i \in DOMAIN res.aux.fluctuations :
                  /\ res.aux.fluctuations[i].box_size >= args.min_box_size
                  /\ res.aux.fluctuations[i].box_size <= res.aux.n
    /\ (fn = "calculate_multifractal_spectrum" /\ res.aux # None)
          => /\ StrictlyAscending(res.aux.box_sizes)
             /\ \A i \in DOMAIN res.aux.valid_sizes :
                  /\ res.aux.valid_sizes[i] >= MfFirstBox
                  /\ res.aux.valid_sizes[i] <= res.aux.n

\* C21: in every R/S Hurst estimator of the repository (calculate_hurst and
\* the endpoints' calculate_hurst_exponent) a scale that yields no valid
\* sub-window contributes no point to the regression: it is dropped from both
\* vectors and is never replaced by a placeholder R/S value.
C21_AsStated ==
    /\ (fn = "calculate_hurst" /\ res.aux # None)
          => \A i \in DOMAIN res.aux.rs_values : res.aux.rs_values[i].n > 0
    /\ (fn = "endpoint.calculate_hurst_exponent" /\ res.aux # None)
          => \A i \in DOMAIN res.aux.rs_values :
               /\ res.aux.rs_values[i].n > 0
               /\ ~res.aux.rs_values[i].placeholder

\* C22: no slope is fitted on too few points: calculate_hurst raises an
\* insufficient-data error whenever fewer than 3 valid (scale, R/S) pairs
\* remain, calculate_dfa raises whenever fewer than 5 box sizes with a
\* fluctuation remain, and in both cases no estimate is returned.
C22_NoFitOnTooFewPoints ==
    /\ (fn = "calculate_hurst" /\ res.aux # None /\ Len(res.aux.rs_values) < HurstMinPairs)
          => /\ res.outcome = "raised" /\ res.error = "insufficient_data"
             /\ res.value = None
             /\ \A i \in DOMAIN res.steps : res.steps[i] # "regress"
    /\ (fn = "calculate_dfa" /\ res.aux # None /\ Len(res.aux.fluctuations) < DfaMinBoxes)
          => /\ res.outcome = "raised" /\ res.error = "insufficient_data"
             /\ res.value = None
             /\ \A i \in DOMAIN res.steps : res.steps[i] # "regress"
    /\ (fn = "calculate_hurst" /\ res.outcome = "returned")
          => Len(res.aux.rs_values) >= HurstMinPairs
    /\ (fn = "calculate_dfa" /\ res.outcome = "returned")
          => Len(res.aux.fluctuations) >= DfaMinBoxes

\* two valid pairs remained, one short of a regression, and the call raised
C22_Witness ==
    /\ fn = "calculate_hurst"
    /\ res.outcome = "raised"
    /\ res.aux # None
    /\ Len(res.aux.rs_values) = HurstMinPairs - 1

C23_AllTauMissing ==
    /\ fn = "calculate_multifractal_spectrum"
    /\ res.outcome = "raised"
    /\ res.aux # None
    /\ Len(res.aux.valid_sizes) < MfMinBoxes
    /\ args.q_range[2] - args.q_range[1] >= MfMinTau

\* C24: calculate_cvar returns the negated VaR threshold exactly when no
\* return of the cleaned series is <= the threshold, and otherwise the negated
\* mean of the returns <= the threshold; for every non-empty cleaned series
\* and confidence level in (0, 1) the returns <= the threshold include the
\* minimum return, so the tail is never empty.
C24_TailHoldsMinimum ==
    (fn = "calculate_cvar" /\ res.outcome = "returned" /\ ~res.value.nan)
        => LET clean == dropna(args.returns)
               threshold == res.aux.var_threshold.num
               below == SelectSeq(clean, LAMBDA x : Hundred * x <= threshold)
           IN  /\ res.aux.tail = Len(below)
               /\ \E i \in DOMAIN clean :
                    /\ \A j \in DOMAIN clean : clean[i] <= clean[j]
                    /\ Hundred * clean[i] <= threshold
               /\ IF below = <<>>
                  THEN res.value = Frac(0 - threshold, Hundred)
                  ELSE /\ res.value = Frac(0 - SumSeq(below), Len(below))
                       /\ res.steps[Len(res.steps)] = "mean"

\* the tail is a proper, non-empty part of the cleaned series
C24_Witness ==
    /\ fn = "calculate_cvar"
    /\ res.outcome = "returned"
    /\ ~res.value.nan
    /\ res.aux.tail >= 1
    /\ res.aux.tail < Len(dropna(args.returns))
    /\ res.steps[Len(res.steps)] = "mean"

\* C25: within one risk result record VaR, CVaR, mean and volatility are all
\* computed from the same cleaned series: the observations left after the
\* missing values are removed feed every field of the record.  (Checked for
\* the record of the CVaR tool with the analysis function imported.)
C25_AsStated ==
    (fn = "tool.calculate_cvar" /\ args.import_ok /\ HasKey("cvar"))
        => LET clean == dropna(args.returns)
               n == Len(clean)
           IN  IF n = 0
               THEN /\ res.value.cvar.nan /\ res.value.var.nan
                    /\ res.value.mean_return.nan /\ res.value.volatility_sq.nan
               ELSE /\ res.value.cvar = calculate_cvar([vals |-> clean, nan |-> {}],
                                                       args.confidence_level, TRUE).value
                    /\ res.value.var
                         = Frac(Quantile100(clean, Hundred - args.confidence_level), Hundred)
                    /\ res.value.mean_return = Frac(SumSeq(clean), n)
                    /\ res.value.volatility_sq = Frac(VarNum(clean), n * n)

\* C26: when the HMM library is available and the fit succeeds,
\* detect_market_regimes returns the HMM result (decoded labels, per-regime
\* statistics, the fitted model's transition matrix); the volatility-percentile
\* fallback is produced only when the HMM library is unavailable or fitting
\* is infeasible.
C26_AsStated ==
    ( /\ fn = "tool.detect_market_regimes"
      /\ args.import_ok /\ args.hmm_available /\ args.lib.fit_ok
      /\ args.n_regimes >= 1
      /\ Len(args.data.vals) >= HmmMinLen )
        => /\ HasKey("regime_labels")
           /\ ~HasKey("method")
           /\ \A i \in DOMAIN res.steps : res.steps[i] # "fallback"

\* C27: the volatility-percentile regime fallback labels each observation from
\* its 20-window rolling standard deviation v: 1 when v is missing, 0 when v is
\* below the 33rd percentile of the rolling values, 1 when v is at or above the
\* 33rd and below the 67th percentile, 2 otherwise; it returns one label per
\* input observation, an empty transition matrix and the marker
\* method = fallback_volatility_based.
C27_FallbackLabelling ==
    ( /\ fn = "tool.detect_market_regimes"
      /\ res.outcome = "returned"
      /\ \E k \in DOMAIN res.steps : res.steps[k] = "fallback" )
        => LET v == RollingStd(args.data, RegimeWindow)
               p33 == Quantile100(Somes(v), LowPercentile)
               p67 == Quantile100(Somes(v), HighPercentile)
               labels == res.value.regime_labels
           IN  /\ res.value.method = "fallback_volatility_based"
               /\ res.value.transition_matrix = <<>>
               /\ Len(labels) = Len(args.data.vals)
               /\ \A i \in DOMAIN labels :
                    /\ v[i] = None => labels[i] = 1
                    /\ (v[i] # None /\ Hundred * v[i][1] < p33) => labels[i] = 0
                    /\ (v[i] # None /\ Hundred * v[i][1] >= p33 /\ Hundred * v[i][1] < p67)
                          => labels[i] = 1
                    /\ (v[i] # None /\ Hundred * v[i][1] >= p67) => labels[i] = 2

\* a fallback result in which all three regimes and a missing rolling value occur
C27_Witness ==
    /\ fn = "tool.detect_market_regimes"
    /\ HasKey("method")
    /\ \A l \in 0..2 : \E i \in DOMAIN res.value.regime_labels :
            /\ res.value.regime_labels[i] = l
            /\ i >= RegimeWindow
    /\ res.value.regime_labels[1] = 1

\* C28: a zero-variance (constant) input never produces an unhandled
\* arithmetic fault or an undefined result: calculate_hurst (windows whose
\* standard deviation is 0) and calculate_dfa (boxes whose detrended
\* fluctuation is 0) raise a declared error or return a defined number, and
\* the Sharpe ratio of calculate_multi_level_var is 0 when the volatility is 0.
C28_AsStated ==
    /\ ( /\ fn \in {"calculate_hurst", "calculate_dfa"}
         /\ ~NonConstant(dropna(args.series)) )
       => \/ res.outcome = "raised" /\ res.error = "insufficient_data"
          \/ res.outcome = "returned" /\ ~res.value.nan
    /\ ( /\ fn = "calculate_multi_level_var"
         /\ res.value.success
         /\ ~NonConstant(dropna(args.portfolio_returns)) )
       => res.value.sharpe_ratio.branch = "zero"

\* the spec's policy for a Hurst value in hundredths
HurstClass(v) ==
    IF v < MeanRevertingBelow THEN "mean_reverting"
    ELSE IF v <= PersistentAbove THEN "random_walk"
    ELSE "persistent"

\* the class a regime name of analyze_hurst_regimes stands for
ClassOfRegime(name) ==
    CASE name = "Mean-Reverting" -> "mean_reverting"
      [] name = "Random Walk" -> "random_walk"
      [] name = "Trending" -> "persistent"
      [] OTHER -> "none"

HurstLabels == {"mean_reverting", "random_walk", "persistent"}

\* C29: the interpretation of a Hurst value is a total three-way
\* classification applied identically at every call site: H < 0.45 is
\* mean-reverting, 0.45 <= H <= 0.55 is random walk, H > 0.55 is persistent;
\* every computed H receives exactly one label, the tool, the endpoint
\* estimator and the rolling regime analysis agree on it, and a result for
\* which no Hurst value could be computed receives no label.
C29_AsStated ==
    /\ (fn = "tool.calculate_hurst_exponent" /\ HasKey("hurst_exponent"))
          => IF res.value.hurst_exponent.nan
             THEN res.value.interpretation \notin HurstLabels
             ELSE res.value.interpretation = HurstClass(res.value.hurst_exponent.v)
    /\ (fn = "endpoint.calculate_hurst_exponent" /\ res.aux # None)
          => res.value.interpretation = HurstClass(res.value.hurst_exponent.v)
    /\ (fn = "analyze_hurst_regimes" /\ res.outcome = "returned")
          => \A k \in DOMAIN res.value :
               /\ ~res.value[k].hurst.nan
               /\ ClassOfRegime(res.value[k].hurst_regime) = HurstClass(res.value[k].hurst.v)

\* C30: POST /api/v1/analysis/risk/cvar answers with status 400 when fewer
\* than 30 returns are supplied or when the confidence level is not strictly
\* between 0 and 1, with status 501 when the CVaR function is unavailable,
\* and with status 500 only when the calculation itself fails.
C30_AsStated ==
    fn = "endpoint.calculate_portfolio_cvar"
        => LET short == Len(args.returns.vals) < CvarRequestMinLen
               invalid == ~(0 < args.confidence_level /\ args.confidence_level < Hundred)
           IN  /\ ~args.cvar_available => res.value.status_code = HttpNotImplemented
               /\ (args.cvar_available /\ (short \/ invalid))
                     => res.value.status_code = HttpBadRequest
               /\ res.value.status_code = HttpServerError
                     => (args.cvar_available /\ ~short /\ ~invalid)


====
